---- MODULE Spec2Model ----
(***************************************************************************)
(* A model of src/index.js: the "dad jokes" service.  The store (the two   *)
(* Postgres tables), the start-up sequence and the five route handlers are *)
(* modelled; every handler is translated from its code, with one action    *)
(* per code segment between two awaits.                                    *)
(*                                                                         *)
(* Strings are sequences of one-character strings, so that trim() and      *)
(* parseInt() are computed and not assumed.  A JavaScript number is a      *)
(* record [n, d]: the rational n/d when d > 0, and NaN when d = 0.         *)
(***************************************************************************)
EXTENDS Integers, Sequences, FiniteSets, TLC

\* ------------------------------------------------------------------ bounds

\* most values jokes_id_seq hands out
MaxJokes == 2
\* most values ratings_id_seq hands out
MaxRatings == 3
\* rating requests in flight at once
NumClients == 2

\* ---------------------------------------------------------- program constants

\* index.js:95  parseInt(req.query.limit) || 10
DefaultLimit == 10
\* index.js:95  Math.min(..., 50)
LimitCap == 50
\* index.js:42  author VARCHAR(100)
AuthorMaxLen == 100
\* index.js:122 / index.js:50  stars between 1 and 5
MinStars == 1
MaxStars == 5

\* ------------------------------------------------------- JavaScript values

Num(n) == [n |-> n, d |-> 1]
Frac(n, d) == [n |-> n, d |-> d]
NaN == [n |-> 0, d |-> 0]
IsNaN(x) == x.d = 0

\* a JavaScript value: undefined, a number, or a string
Undefined == [t |-> "undefined", num |-> NaN, s |-> <<>>]
JsNumber(x) == [t |-> "number", num |-> x, s |-> <<>>]
JsString(s) == [t |-> "string", num |-> NaN, s |-> s]

Digits == <<"0", "1", "2", "3", "4", "5", "6", "7", "8", "9">>
IsDigit(c) == \E i \in 1..10 : Digits[i] = c
DigitVal(c) == (CHOOSE i \in 1..10 : Digits[i] = c) - 1
IsSpace(c) == c = " "

\* String.prototype.trim
RECURSIVE TrimLeft(_)
TrimLeft(s) ==
    IF s # <<>> /\ IsSpace(Head(s)) THEN TrimLeft(Tail(s)) ELSE s

RECURSIVE TrimRight(_)
TrimRight(s) ==
    IF s # <<>> /\ IsSpace(s[Len(s)])
    THEN TrimRight(SubSeq(s, 1, Len(s) - 1))
    ELSE s

Trim(s) == TrimRight(TrimLeft(s))

\* the longest prefix of s made of digits
RECURSIVE DigitPrefix(_)
DigitPrefix(s) ==
    IF s # <<>> /\ IsDigit(Head(s))
    THEN <<Head(s)>> \o DigitPrefix(Tail(s))
    ELSE <<>>

\* the value of a sequence of digits
RECURSIVE DigitsValue(_)
DigitsValue(s) ==
    IF s = <<>> THEN 0
    ELSE 10 * DigitsValue(SubSeq(s, 1, Len(s) - 1)) + DigitVal(s[Len(s)])

\* parseInt(v): of undefined NaN; of a string: leading white space skipped, an
\* optional sign, then the longest run of digits (NaN when there is none);
\* what follows the digits is ignored
ParseInt(v) ==
    IF v.t # "string" THEN NaN
    ELSE LET s0 == TrimLeft(v.s)
             neg == s0 # <<>> /\ Head(s0) = "-"
             s1 == IF s0 # <<>> /\ Head(s0) \in {"-", "+"} THEN Tail(s0) ELSE s0
             ds == DigitPrefix(s1)
         IN IF ds = <<>> THEN NaN
            ELSE Num(IF neg THEN 0 - DigitsValue(ds) ELSE DigitsValue(ds))

\* ToBoolean
Truthy(v) ==
    CASE v.t = "undefined" -> FALSE
      [] v.t = "number" -> ~IsNaN(v.num) /\ v.num.n # 0
      [] v.t = "string" -> v.s # <<>>

\* ToNumber, for the values of the model: a string of digits (with an optional
\* sign) is its value, any other non-empty string is NaN
ToNumber(v) ==
    CASE v.t = "undefined" -> NaN
      [] v.t = "number" -> v.num
      [] v.t = "string" ->
           LET s == Trim(v.s)
               body == IF s # <<>> /\ Head(s) \in {"-", "+"} THEN Tail(s) ELSE s
           IN IF s = <<>> THEN Num(0)
              ELSE IF body # <<>> /\ DigitPrefix(body) = body
                   THEN ParseInt(v)
                   ELSE NaN

\* x < y and x > y on numbers: false when either is NaN
NumLess(x, y) == ~IsNaN(x) /\ ~IsNaN(y) /\ x.n * y.d < y.n * x.d
NumGreater(x, y) == NumLess(y, x)

\* Math.min(x, y): NaN when either is NaN
MathMin(x, y) ==
    IF IsNaN(x) \/ IsNaN(y) THEN NaN
    ELSE IF NumLess(y, x) THEN y ELSE x

\* ------------------------------------------------------------------ inputs

\* req.body.text: absent, empty, blank, or with text in it
TextInputs ==
    { Undefined, JsString(<<>>), JsString(<<" ", " ">>),
      JsString(<<" ", "a", " ">>) }

\* an author of AuthorMaxLen + 1 characters
LongAuthor == [i \in 1..(AuthorMaxLen + 1) |-> "x"]

\* req.body.author: absent, blank, a name with spaces around it, a long name
AuthorInputs ==
    { Undefined, JsString(<<" ">>), JsString(<<" ", "B", " ">>),
      JsString(LongAuthor) }

\* req.query.limit: absent, not a number, zero, negative, in range, above 50
LimitInputs ==
    { Undefined, JsString(<<"x">>), JsString(<<"0">>), JsString(<<"-", "5">>),
      JsString(<<"1">>), JsString(<<"2">>), JsString(<<"5", "0">>),
      JsString(<<"1", "0", "0">>) }

\* req.params.id: always a string (a path segment)
IdInputs ==
    { JsString(<<"1">>), JsString(<<"2">>), JsString(<<"9">>),
      JsString(<<"x">>) }

\* req.body.stars: absent, numbers in and out of range, a fraction
StarsInputs ==
    { Undefined, JsNumber(Num(0)), JsNumber(Num(6)), JsNumber(Num(0 - 1)),
      JsNumber(Num(1)), JsNumber(Num(5)), JsNumber(Frac(5, 2)) }

\* ------------------------------------------------------------------- state

VARIABLES
    phase,        \* where start() is: "start", "resolved", "init", "listening", "exited", "crashed"
    databaseUrl,  \* where the connection string came from: "none", "env", "parameter store"
    initDone,     \* how many of the three table-initialisation queries have run
    held,         \* store connections the application holds (pool.connect without release)
    jokes,        \* the rows of table jokes
    ratings,      \* the rows of table ratings
    jokeSeq,      \* the last value of jokes_id_seq
    ratingSeq,    \* the last value of ratings_id_seq
    clock,        \* the last reading of NOW()
    pc,           \* per client: where its rating request is
    req,          \* per client: the rating request in flight
    resp,         \* the response sent by the last step, NoResponse when it sent none
    accepted      \* the ratings written, in the order of their inserts

vars ==
    <<phase, databaseUrl, initDone, held, jokes, ratings,
      jokeSeq, ratingSeq, clock, pc, req, resp, accepted>>

store == <<jokes, ratings, jokeSeq, ratingSeq, clock, accepted>>
boot == <<databaseUrl, initDone, held>>

Clients == 1..NumClients

\* ------------------------------------------------------------------- store

\* what node-postgres sends for a parameter, read by Postgres as an integer
\* (int4in): a number is sent as its decimal text, a string as it is; only an
\* optionally signed run of digits is an integer
PgInteger(v) ==
    CASE v.t = "number" ->
           IF ~IsNaN(v.num) /\ v.num.d = 1
           THEN [ok |-> TRUE, val |-> v.num.n]
           ELSE [ok |-> FALSE, val |-> 0]
      [] v.t = "string" ->
           LET n == ToNumber(v)
           IN IF Trim(v.s) # <<>> /\ ~IsNaN(n)
              THEN [ok |-> TRUE, val |-> n.n]
              ELSE [ok |-> FALSE, val |-> 0]
      [] OTHER -> [ok |-> FALSE, val |-> 0]

RECURSIVE SumStars(_)
SumStars(rs) ==
    IF rs = {} THEN 0
    ELSE LET r == CHOOSE x \in rs : TRUE
         IN r.stars + SumStars(rs \ {r})

RECURSIVE Gcd(_, _)
Gcd(a, b) == IF b = 0 THEN a ELSE Gcd(b, a % b)

\* a fraction in lowest terms
Reduced(n, d) == LET g == Gcd(n, d) IN Frac(n \div g, d \div g)

\* a variant of JoinedRatings that reads the ratings as they were before the
\* last insert
JoinedRatings_MissingLatest(j, rs) ==
    {r \in rs : r.joke_id = j.id /\ r.id # ratingSeq}

\* jokes j LEFT JOIN ratings r ON j.id = r.joke_id: the ratings joined to j
JoinedRatings(j, rs) == {r \in rs : r.joke_id = j.id}

\* a variant of AvgRating that is SUM(r.stars)
AvgRating_Sum(rs) == Num(SumStars(rs))

\* a variant of AvgRating that divides as integers do
AvgRating_Truncated(rs) ==
    IF rs = {} THEN Num(0) ELSE Num(SumStars(rs) \div Cardinality(rs))

\* COALESCE(AVG(r.stars), 0)
AvgRating(rs) ==
    IF rs = {} THEN Num(0) ELSE Reduced(SumStars(rs), Cardinality(rs))

\* COUNT(r.id)
RatingCount(rs) == Cardinality(rs)

\* SELECT j.*, COALESCE(AVG(r.stars), 0) as avg_rating, COUNT(r.id) as rating_count
\* FROM jokes j LEFT JOIN ratings r ON j.id = r.joke_id GROUP BY j.id
Aggregate(j, rs) ==
    [id |-> j.id, text |-> j.text, author |-> j.author,
     created_at |-> j.created_at,
     avg_rating |-> AvgRating(JoinedRatings(j, rs)),
     rating_count |-> RatingCount(JoinedRatings(j, rs))]

JokesWithAggregates(js, rs) == {Aggregate(j, rs) : j \in js}

\* LIMIT k, for k >= 0
Limit(q, k) == SubSeq(q, 1, IF k < Len(q) THEN k ELSE Len(q))

\* a variant of TopPrecedes that leaves out the tie-break on rating_count
TopPrecedes_NoTieBreak(a, b) == NumGreater(a.avg_rating, b.avg_rating)

\* ORDER BY avg_rating DESC, rating_count DESC
TopPrecedes(a, b) ==
    \/ NumGreater(a.avg_rating, b.avg_rating)
    \/ a.avg_rating = b.avg_rating /\ a.rating_count > b.rating_count

\* a variant of NewestPrecedes that orders by created_at ascending
NewestPrecedes_Ascending(a, b) == a.created_at < b.created_at

\* ORDER BY j.created_at DESC
NewestPrecedes(a, b) == a.created_at > b.created_at

\* a variant of RandomPrecedes that puts the most rated first
RandomPrecedes_MostRatedFirst(a, b) == a.rating_count > b.rating_count

\* ORDER BY RANDOM()
RandomPrecedes(a, b) == FALSE

\* which of two rows an ORDER BY clause puts first
Precedes(order, a, b) ==
    CASE order = "avg_rating DESC, rating_count DESC" -> TopPrecedes(a, b)
      [] order = "created_at DESC" -> NewestPrecedes(a, b)
      [] order = "RANDOM()" -> RandomPrecedes(a, b)

\* ORDER BY: every order of the rows in which no row comes after one it must
\* precede; rows the ordering does not tell apart come in any order
OrderBy(rows, order) ==
    LET n == Cardinality(rows)
    IN {q \in [1..n -> rows] :
          /\ \A i, k \in 1..n : i # k => q[i] # q[k]
          /\ \A i, k \in 1..n : i < k => ~Precedes(order, q[k], q[i])}

\* HAVING COUNT(r.id) > 0
HasRating(row) == row.rating_count > 0

\* --------------------------------------------------------------- responses

\* a response: the route, the status, the rows of the body, and for the top
\* route the LIMIT the query ran with
Response(op, status, rows, limit) ==
    [op |-> op, status |-> status, rows |-> rows, limit |-> limit]

NoResponse == Response("none", 0, <<>>, 0)

\* An async handler whose awaited query fails returns a rejected promise, and
\* no handler has a try/catch.  What follows is the build's: Express 5 passes
\* the rejection to its default error handler, which answers 500; Express 4
\* ignores the returned promise, so the rejection is unhandled, the request
\* is never answered (status 0 here) and Node ends the process.
Rejected(op) ==
    \/ /\ resp' = Response(op, 500, <<>>, 0)
       /\ phase' = phase
    \/ /\ resp' = Response(op, 0, <<>>, 0)
       /\ phase' = "crashed"

\* ----------------------------------------------------------------- start-up

\* a variant of GetConfig that takes any answer of the parameter store for a
\* value
GetConfig_IgnoringStatus(hasConfigUrl, lookup) ==
    IF hasConfigUrl THEN "parameter store" ELSE "none"

\* getConfig(key): the value the parameter store answers, or undefined
GetConfig(hasConfigUrl, lookup) ==
    IF ~hasConfigUrl THEN "none"
    ELSE IF lookup = "value" THEN "parameter store" ELSE "none"

\* process.env.DATABASE_URL || (await getConfig("DATABASE_URL")), and
\* process.exit(1) when that is not set
Resolve(hasEnv, hasConfigUrl, lookup) ==
    /\ phase = "start"
    /\ databaseUrl' = IF hasEnv THEN "env" ELSE GetConfig(hasConfigUrl, lookup)
    /\ phase' = IF databaseUrl' = "none" THEN "exited" ELSE "resolved"
    /\ UNCHANGED <<initDone, held, store, pc, req, resp>>

\* const client = await pool.connect(), or start().catch
Connect ==
    /\ phase = "resolved"
    /\ \E ok \in BOOLEAN :
          IF ok
          THEN held' = held + 1 /\ phase' = "init"
          ELSE held' = held /\ phase' = "exited"
    /\ UNCHANGED <<databaseUrl, initDone, store, pc, req, resp>>

\* a variant of InitQuery without the finally block: a failed query goes
\* straight to start().catch
InitQuery_NoFinally ==
    /\ phase = "init"
    /\ initDone < 3
    /\ \E ok \in BOOLEAN :
          IF ok
          THEN initDone' = initDone + 1 /\ held' = held /\ phase' = phase
          ELSE initDone' = initDone /\ held' = held /\ phase' = "exited"
    /\ UNCHANGED <<databaseUrl, store, pc, req, resp>>

\* one of the three client.query calls of the try block; when it fails the
\* finally block releases the client and start().catch exits
InitQuery ==
    /\ phase = "init"
    /\ initDone < 3
    /\ \E ok \in BOOLEAN :
          IF ok
          THEN initDone' = initDone + 1 /\ held' = held /\ phase' = phase
          ELSE initDone' = initDone /\ held' = held - 1 /\ phase' = "exited"
    /\ UNCHANGED <<databaseUrl, store, pc, req, resp>>

\* finally { client.release() }, then the routes are registered and
\* app.listen is called
Listen ==
    /\ phase = "init"
    /\ initDone = 3
    /\ held' = held - 1
    /\ phase' = "listening"
    /\ UNCHANGED <<databaseUrl, initDone, store, pc, req, resp>>

\* ----------------------------------------------------------------- handlers

\* a variant of AuthorName that tests the trimmed author and stores the raw one
AuthorName_Untrimmed(author) ==
    IF Truthy(author) /\ Len(Trim(author.s)) > 0 THEN author.s
    ELSE <<"A", "n", "o", "n", "y", "m", "o", "u", "s">>

\* author && author.trim().length > 0 ? author.trim() : "Anonymous"
Anonymous == <<"A", "n", "o", "n", "y", "m", "o", "u", "s">>
AuthorName(author) ==
    IF Truthy(author) /\ Len(Trim(author.s)) > 0 THEN Trim(author.s)
    ELSE Anonymous

\* a variant of TextMissing that does not trim
TextMissing_NoTrim(text) == ~Truthy(text)

\* !text || text.trim().length === 0
TextMissing(text) == ~Truthy(text) \/ Len(Trim(text.s)) = 0

\* created_at TIMESTAMP DEFAULT NOW(): a reading of the store's clock, after
\* the tables were made (at 0) and not before the reading before it; two
\* inserts may read the same microsecond
Now == {t \in {clock, clock + 1} : t > 0}

\* a variant of InsertedJoke that stores the row twice, under two ids
InsertedJoke_Twice(text, author, now) ==
    IF Len(author) > AuthorMaxLen THEN {}
    ELSE {[id |-> jokeSeq + k, text |-> text, author |-> author,
           created_at |-> now] : k \in {1, MaxJokes + 1}}

\* INSERT INTO jokes (text, author) VALUES ($1, $2) RETURNING *: the row, or
\* no row when the author does not fit VARCHAR(100)
InsertedJoke(text, author, now) ==
    IF Len(author) > AuthorMaxLen THEN {}
    ELSE {[id |-> jokeSeq + 1, text |-> text, author |-> author,
           created_at |-> now]}

\* app.post("/api/jokes")
SubmitItem(text, author) ==
    /\ phase = "listening"
    /\ IF TextMissing(text)
       THEN /\ resp' = Response("submit", 400, <<>>, 0)
            /\ UNCHANGED <<phase, store>>
       ELSE /\ jokeSeq < MaxJokes
            /\ jokeSeq' = jokeSeq + 1
            /\ \E now \in Now :
                 LET rows == InsertedJoke(Trim(text.s), AuthorName(author), now)
                 IN IF rows = {}
                    THEN /\ Rejected("submit")
                         /\ UNCHANGED <<jokes, clock>>
                    ELSE /\ jokes' = jokes \cup rows
                         /\ clock' = now
                         /\ resp' = Response("submit", 201,
                                             <<CHOOSE r \in rows : TRUE>>, 0)
                         /\ phase' = phase
            /\ UNCHANGED <<ratings, ratingSeq, accepted>>
    /\ UNCHANGED <<boot, pc, req>>

\* a variant of RandomItem that takes the joke it answers with out of the
\* table
RandomItem_Popping ==
    /\ phase = "listening"
    /\ \E q \in OrderBy(JokesWithAggregates(jokes, ratings), "RANDOM()") :
          IF Len(Limit(q, 1)) = 0
          THEN /\ resp' = Response("random", 404, <<>>, 0)
               /\ UNCHANGED <<jokes, ratings>>
          ELSE /\ resp' = Response("random", 200, <<Limit(q, 1)[1]>>, 0)
               /\ jokes' = {j \in jokes : j.id # q[1].id}
               /\ ratings' = {r \in ratings : r.joke_id # q[1].id}
    /\ UNCHANGED <<phase, boot, jokeSeq, ratingSeq, clock, accepted, pc, req>>

\* app.get("/api/jokes/random")
RandomItem ==
    /\ phase = "listening"
    /\ \E q \in OrderBy(JokesWithAggregates(jokes, ratings), "RANDOM()") :
          IF Len(Limit(q, 1)) = 0
          THEN resp' = Response("random", 404, <<>>, 0)
          ELSE resp' = Response("random", 200, <<Limit(q, 1)[1]>>, 0)
    /\ UNCHANGED <<phase, boot, store, pc, req>>

\* Math.min(parseInt(req.query.limit) || 10, 50)
TopLimit(limit) ==
    MathMin(IF Truthy(JsNumber(ParseInt(limit))) THEN ParseInt(limit)
            ELSE Num(DefaultLimit),
            Num(LimitCap))

\* app.get("/api/jokes/top"); Postgres refuses a negative LIMIT
TopItems(limit) ==
    /\ phase = "listening"
    /\ IF TopLimit(limit).n < 0
       THEN Rejected("top")
       ELSE /\ \E q \in OrderBy({row \in JokesWithAggregates(jokes, ratings) :
                                   HasRating(row)},
                              "avg_rating DESC, rating_count DESC") :
                 resp' = Response("top", 200, Limit(q, TopLimit(limit).n),
                                  TopLimit(limit).n)
            /\ phase' = phase
    /\ UNCHANGED <<boot, store, pc, req>>

\* app.get("/api/jokes")
AllItems ==
    /\ phase = "listening"
    /\ \E q \in OrderBy(JokesWithAggregates(jokes, ratings), "created_at DESC") :
          resp' = Response("all", 200, q, 0)
    /\ UNCHANGED <<phase, boot, store, pc, req>>

\* !stars || stars < 1 || stars > 5
StarsInvalid(stars) ==
    \/ ~Truthy(stars)
    \/ NumLess(ToNumber(stars), Num(MinStars))
    \/ NumGreater(ToNumber(stars), Num(MaxStars))

\* rating requests past their existence check whose insert is still to come
Inserting == {c \in Clients : pc[c] = "insert"}

NoRequest == [jokeId |-> NaN, stars |-> Undefined]

\* SELECT id FROM jokes WHERE id = $1
SelectJoke(js, id) == {j \in js : j.id = id}

\* app.post("/api/jokes/:id/rate"), to the end of its first query
RateBegin(c, id, stars) ==
    /\ phase = "listening"
    /\ pc[c] = "idle"
    /\ LET jokeId == ParseInt(id)
       IN IF StarsInvalid(stars)
          THEN /\ resp' = Response("rate", 400, <<>>, 0)
               /\ UNCHANGED <<phase, pc, req>>
          ELSE IF ~PgInteger(JsNumber(jokeId)).ok
          THEN /\ Rejected("rate")
               /\ UNCHANGED <<pc, req>>
          ELSE IF SelectJoke(jokes, jokeId.n) = {}
          THEN /\ resp' = Response("rate", 404, <<>>, 0)
               /\ UNCHANGED <<phase, pc, req>>
          ELSE /\ ratingSeq + Cardinality(Inserting) < MaxRatings
               /\ pc' = [pc EXCEPT ![c] = "insert"]
               /\ req' = [req EXCEPT ![c] = [jokeId |-> jokeId, stars |-> stars]]
               /\ resp' = NoResponse
               /\ phase' = phase
    /\ UNCHANGED <<boot, store>>

\* a variant of InsertRating for a ratings table without REFERENCES jokes(id)
InsertRating_NoForeignKey(js, jokeId, stars) ==
    IF ~PgInteger(stars).ok THEN "bad value"
    ELSE IF PgInteger(stars).val < MinStars \/ PgInteger(stars).val > MaxStars
         THEN "constraint"
         ELSE "ok"

\* INSERT INTO ratings (joke_id, stars) VALUES ($1, $2): "bad value" when the
\* stars do not read as an integer; "constraint" when CHECK (stars >= 1 AND
\* stars <= 5) or REFERENCES jokes(id) refuses the row; else "ok"
InsertRating(js, jokeId, stars) ==
    IF ~PgInteger(stars).ok THEN "bad value"
    ELSE IF \/ PgInteger(stars).val < MinStars
            \/ PgInteger(stars).val > MaxStars
            \/ SelectJoke(js, jokeId) = {}
         THEN "constraint"
         ELSE "ok"

\* the handler from its INSERT to the next await
RateInsert(c) ==
    /\ phase = "listening"
    /\ pc[c] = "insert"
    /\ LET jokeId == req[c].jokeId.n
           result == InsertRating(jokes, jokeId, req[c].stars)
       IN IF result = "ok"
          THEN /\ ratings' = ratings \cup
                     {[id |-> ratingSeq + 1, joke_id |-> jokeId,
                       stars |-> PgInteger(req[c].stars).val]}
               /\ ratingSeq' = ratingSeq + 1
               /\ accepted' = Append(accepted,
                     [joke_id |-> jokeId,
                      stars |-> PgInteger(req[c].stars).val])
               /\ pc' = [pc EXCEPT ![c] = "reread"]
               /\ req' = [req EXCEPT ![c].stars = Undefined]
               /\ resp' = NoResponse
               /\ phase' = phase
          ELSE /\ Rejected("rate")
               /\ pc' = [pc EXCEPT ![c] = "idle"]
               /\ req' = [req EXCEPT ![c] = NoRequest]
               /\ ratingSeq' = IF result = "constraint" THEN ratingSeq + 1
                               ELSE ratingSeq
               /\ UNCHANGED <<ratings, accepted>>
    /\ UNCHANGED <<boot, jokes, jokeSeq, clock>>

\* the handler's last query, WHERE j.id = $1 GROUP BY j.id (one row, or none
\* when the joke is gone), and res.json(result.rows[0])
RateReread(c) ==
    /\ phase = "listening"
    /\ pc[c] = "reread"
    /\ LET rows == JokesWithAggregates(SelectJoke(jokes, req[c].jokeId.n),
                                       ratings)
       IN resp' = Response("rate", 200,
                           IF rows = {} THEN <<>>
                           ELSE <<CHOOSE row \in rows : TRUE>>, 0)
    /\ pc' = [pc EXCEPT ![c] = "idle"]
    /\ req' = [req EXCEPT ![c] = NoRequest]
    /\ UNCHANGED <<phase, boot, store>>

\* ------------------------------------------------------------ specification

Init ==
    /\ phase = "start"
    /\ databaseUrl = "none"
    /\ initDone = 0
    /\ held = 0
    /\ jokes = {}
    /\ ratings = {}
    /\ jokeSeq = 0
    /\ ratingSeq = 0
    /\ clock = 0
    /\ pc = [c \in Clients |-> "idle"]
    /\ req = [c \in Clients |-> NoRequest]
    /\ resp = NoResponse
    /\ accepted = <<>>

StartUp ==
    \/ \E hasEnv \in BOOLEAN, hasConfigUrl \in BOOLEAN,
          lookup \in {"value", "no value", "not ok", "throws"} :
          Resolve(hasEnv, hasConfigUrl, lookup)
    \/ Connect
    \/ InitQuery
    \/ Listen

\* the requests of the clients cs
Requests(cs) ==
    \/ \E text \in TextInputs, author \in AuthorInputs : SubmitItem(text, author)
    \/ RandomItem
    \/ \E limit \in LimitInputs : TopItems(limit)
    \/ AllItems
    \/ \E c \in cs, id \in IdInputs, stars \in StarsInputs :
          RateBegin(c, id, stars)
    \/ \E c \in cs : RateInsert(c)
    \/ \E c \in cs : RateReread(c)

\* one rating request in flight at a time
Next == StartUp \/ Requests({1})

Spec == Init /\ [][Next]_vars

\* The store is Postgres, which serves other sessions too.  REFERENCES
\* jokes(id) ON DELETE CASCADE says what a DELETE FROM jokes WHERE id = $1 of
\* such a session does: the ratings of the joke go with it.
Cascade(rs, id) == {r \in rs : r.joke_id # id}

\* the ratings written, without those of joke id
RECURSIVE Forget(_, _)
Forget(log, id) ==
    IF log = <<>> THEN <<>>
    ELSE IF Head(log).joke_id = id THEN Forget(Tail(log), id)
         ELSE <<Head(log)>> \o Forget(Tail(log), id)

\* DELETE FROM jokes WHERE id = $1, run by another session of the store while
\* the service is up; no route of the service deletes
DeleteJoke(id) ==
    /\ phase = "listening"
    /\ SelectJoke(jokes, id) # {}
    /\ jokes' = jokes \ SelectJoke(jokes, id)
    /\ ratings' = Cascade(ratings, id)
    /\ accepted' = Forget(accepted, id)
    /\ resp' = NoResponse
    /\ UNCHANGED <<phase, boot, jokeSeq, ratingSeq, clock, pc, req>>

\* the rating requests of the clients cs, each a step from one await to the
\* next, and the submissions that give them jokes to rate
Writes(cs) ==
    \/ \E text \in TextInputs, author \in AuthorInputs : SubmitItem(text, author)
    \/ \E c \in cs, id \in IdInputs, stars \in StarsInputs :
          RateBegin(c, id, stars)
    \/ \E c \in cs : RateInsert(c)
    \/ \E c \in cs : RateReread(c)

\* rating requests in flight at once, interleaved at their awaits
NextConc == StartUp \/ Writes(Clients)

SpecConc == Init /\ [][NextConc]_vars

\* the same, with another session of the store deleting jokes
NextDel ==
    \/ StartUp
    \/ Writes(Clients)
    \/ \E id \in 1..MaxJokes : DeleteJoke(id)

SpecDel == Init /\ [][NextDel]_vars

\* ------------------------------------------------------------------ claims

\* positions of a sequence
Pos(q) == 1..Len(q)

\* x and y are the same rational
SameNumber(x, y) == x.n * y.d = y.n * x.d
\* x is a greater rational than y
Greater(x, y) == x.n * y.d > y.n * x.d

\* C1: a Top Items result holds no item with rating_count = 0, and of any two
\* of its items the one with the greater avg_rating comes first, and at equal
\* avg_rating the one with the greater rating_count comes first.
C1_TopRanked ==
    resp.op = "top" /\ resp.status = 200 =>
      /\ \A i \in Pos(resp.rows) : resp.rows[i].rating_count # 0
      /\ \A a, b \in Pos(resp.rows) :
           /\ Greater(resp.rows[a].avg_rating, resp.rows[b].avg_rating) => a < b
           /\ ( /\ SameNumber(resp.rows[a].avg_rating, resp.rows[b].avg_rating)
                /\ resp.rows[a].rating_count > resp.rows[b].rating_count ) => a < b

\* a Top Items result of two items with the same average, ranked by count
C1_Witness ==
    /\ resp.op = "top" /\ resp.status = 200 /\ Len(resp.rows) = 2
    /\ SameNumber(resp.rows[1].avg_rating, resp.rows[2].avg_rating)
    /\ resp.rows[1].rating_count > resp.rows[2].rating_count

\* the limit the claim gives for a requested limit: 10 for an absent, an
\* unparsable or a non-positive one, 50 for one above 50, else the one given
RECURSIVE Decimal(_)
Decimal(s) == IF s = <<>> THEN 0 ELSE 10 * Decimal(SubSeq(s, 1, Len(s) - 1)) + DigitVal(s[Len(s)])
AllDigits(s) == s # <<>> /\ \A i \in Pos(s) : IsDigit(s[i])
ClaimedLimit(limit) ==
    IF limit.t = "string" /\ AllDigits(limit.s) /\ Decimal(limit.s) > 0
    THEN (IF Decimal(limit.s) > 50 THEN 50 ELSE Decimal(limit.s))
    ELSE 10

\* C2 (as claimed): whatever limit is asked for, Top Items answers 200, having
\* run its query with the claimed limit, which is in 1..50, and its result has
\* at most 50 entries.
C2_LimitClamped ==
    [][\A limit \in LimitInputs : resp'.op = "top" /\ TopItems(limit) =>
         /\ resp'.status = 200
         /\ resp'.limit = ClaimedLimit(limit)
         /\ resp'.limit \in 1..50
         /\ Len(resp'.rows) <= 50]_vars

\* the stars of the ratings written for joke id, oldest first
RECURSIVE StarsOf(_, _)
StarsOf(log, id) ==
    IF log = <<>> THEN <<>>
    ELSE IF Head(log).joke_id = id
         THEN <<Head(log).stars>> \o StarsOf(Tail(log), id)
         ELSE StarsOf(Tail(log), id)

RECURSIVE Total(_)
Total(q) == IF q = <<>> THEN 0 ELSE Head(q) + Total(Tail(q))

\* row gives the count and the mean of the stars r_1..r_n
IsMeanOf(row, stars) ==
    /\ row.rating_count = Len(stars)
    /\ IF Len(stars) = 0 THEN row.avg_rating.n = 0
       ELSE row.avg_rating.n * Len(stars) = Total(stars) * row.avg_rating.d

\* C3: every read of an item returns as rating_count the number n of ratings
\* written for it so far and as avg_rating the mean of their stars (0 when
\* n = 0); so the read that follows one more rating counts n + 1.
C3_AggregateIsMean ==
    resp.op \in {"random", "top", "all", "rate"} /\ resp.status = 200 =>
      \A i \in Pos(resp.rows) :
         IsMeanOf(resp.rows[i], StarsOf(accepted, resp.rows[i].id))

\* a rating answered with a mean that is no integer: 11/3 of three ratings
C3_Witness ==
    /\ resp.op = "rate" /\ resp.status = 200 /\ Len(resp.rows) = 1
    /\ resp.rows[1].rating_count = 3
    /\ resp.rows[1].avg_rating.d = 3

\* v is an integer in [1,5]
IsStars(v) == v.t = "number" /\ v.num.d = 1 /\ v.num.n \in 1..5

\* C4 (as claimed): Submit Rating with stars that are no integer in [1,5] is
\* answered 400, the request ends there without a query, and the store is as
\* it was.
C4_InvalidStarsRejected ==
    [][\A c \in Clients, id \in IdInputs, stars \in StarsInputs :
         (~IsStars(stars) /\ RateBegin(c, id, stars)) =>
         /\ resp'.op = "rate" /\ resp'.status = 400
         /\ pc'[c] = "idle"
         /\ UNCHANGED store]_vars

\* the decimal text of a natural number
RECURSIVE DecimalText(_)
DecimalText(n) ==
    IF n < 10 THEN <<Digits[n + 1]>>
    ELSE DecimalText(n \div 10) \o <<Digits[(n % 10) + 1]>>

\* the path segment id names a stored item
ReferencesItem(id, js) == \E j \in js : id.s = DecimalText(j.id)

\* C5 (as claimed): Submit Rating with valid stars and an id that names no
\* stored item is answered 404 and writes no Rating; and no rating request is
\* at its insert unless its item was found.
C5_MissingItemNotFound ==
    /\ [](\A c \in Clients :
            pc[c] = "insert" => SelectJoke(jokes, req[c].jokeId.n) # {})
    /\ [][\A c \in Clients, id \in IdInputs, stars \in StarsInputs :
            ( /\ IsStars(stars)
              /\ ~ReferencesItem(id, jokes)
              /\ RateBegin(c, id, stars) ) =>
            /\ resp'.op = "rate" /\ resp'.status = 404
            /\ pc'[c] = "idle"
            /\ UNCHANGED store]_vars

\* every character of s is a space
Blank(s) == \A i \in Pos(s) : s[i] = " "

\* t is s without the spaces at its two ends
IsTrimOf(t, s) ==
    /\ t = <<>> \/ (t[1] # " " /\ t[Len(t)] # " ")
    /\ \E i \in 1..(Len(s) + 1), k \in 0..Len(s) :
         /\ t = SubSeq(s, i, k)
         /\ Blank(SubSeq(s, 1, i - 1))
         /\ Blank(SubSeq(s, k + 1, Len(s)))

\* C6: Submit Item with a text that is absent, empty or all white space is
\* answered 400 and leaves the store as it was: no row, no sequence value, no
\* clock reading.
C6_BlankTextRejected ==
    [][\A text \in TextInputs, author \in AuthorInputs :
         ( /\ resp'.op = "submit"
           /\ text.t = "undefined" \/ Blank(text.s)
           /\ SubmitItem(text, author) ) =>
         /\ resp'.status = 400
         /\ resp'.rows = <<>>
         /\ UNCHANGED store]_vars

\* a Submit Item answered 400
C6_Witness == resp.op = "submit" /\ resp.status = 400 /\ phase = "listening"

\* C7: the Item a Submit Item stores has the submitted text, trimmed, as its
\* text and as its author the submitted author, trimmed, or "Anonymous" when
\* the author is absent or all white space; no stored author is empty.
C7_StoredTrimmed ==
    [][\A text \in TextInputs, author \in AuthorInputs :
         ( /\ resp'.op = "submit"
           /\ SubmitItem(text, author)
           /\ jokes' # jokes ) =>
         /\ Cardinality(jokes' \ jokes) = 1
         /\ \A j \in jokes' \ jokes :
              /\ IsTrimOf(j.text, text.s)
              /\ j.text # <<>>
              /\ IF author.t = "undefined" \/ Blank(author.s)
                 THEN j.author = <<"A", "n", "o", "n", "y", "m", "o", "u", "s">>
                 ELSE IsTrimOf(j.author, author.s)
              /\ j.author # <<>>
              /\ resp'.status = 201 /\ resp'.rows = <<j>>]_vars

\* two stored Items, one with a trimmed author and one by "Anonymous"
C7_Witness ==
    /\ resp.op = "submit" /\ resp.status = 201
    /\ \E j \in jokes : j.author = <<"B">> /\ j.text = <<"a">>
    /\ \E j \in jokes : j.author = <<"A", "n", "o", "n", "y", "m", "o", "u", "s">>

\* the stored Item a row of a response shows
ItemOf(row) ==
    [id |-> row.id, text |-> row.text, author |-> row.author,
     created_at |-> row.created_at]

\* C8: Random Item answers 404 exactly when no item is stored; else it answers
\* with one row, of a stored item, and every stored item can be the one.
C8_RandomItem ==
    /\ resp.op = "random" =>
         /\ resp.status \in {200, 404}
         /\ resp.status = 404 <=> jokes = {}
         /\ resp.status = 200 =>
              Len(resp.rows) = 1 /\ ItemOf(resp.rows[1]) \in jokes
    /\ phase = "listening" =>
         \A j \in jokes :
            ENABLED ( /\ RandomItem
                      /\ resp'.status = 200
                      /\ ItemOf(resp'.rows[1]) = j )

\* Random Item answered with an unrated item while a rated one is stored
C8_Witness ==
    /\ resp.op = "random" /\ resp.status = 200
    /\ resp.rows[1].rating_count = 0
    /\ \E r \in ratings : r.joke_id # resp.rows[1].id

\* C9: All Items answers with every stored item once, an item created later
\* before one created earlier, whatever their ratings; an unrated item shows
\* avg_rating 0 and rating_count 0.
C9_AllNewestFirst ==
    resp.op = "all" =>
      /\ resp.status = 200
      /\ Len(resp.rows) = Cardinality(jokes)
      /\ {ItemOf(resp.rows[i]) : i \in Pos(resp.rows)} = jokes
      /\ \A a, b \in Pos(resp.rows) :
           resp.rows[a].created_at > resp.rows[b].created_at => a < b
      /\ \A i \in Pos(resp.rows) :
           (\A r \in ratings : r.joke_id # resp.rows[i].id) =>
             resp.rows[i].avg_rating = Num(0) /\ resp.rows[i].rating_count = 0

\* All Items answered with an unrated item ahead of an older, rated one
C9_Witness ==
    /\ resp.op = "all" /\ Len(resp.rows) = 2
    /\ resp.rows[1].created_at > resp.rows[2].created_at
    /\ resp.rows[1].rating_count = 0
    /\ resp.rows[2].rating_count > 0

\* C10 (as claimed): once the service listens, every request is answered (a
\* failed store operation with 500) and the process keeps serving; it ends
\* only during start-up.
C10_StoreFailureAnswered500 ==
    [][phase = "listening" =>
         /\ phase' = "listening"
         /\ resp'.op # "none" => resp'.status \in {200, 201, 400, 404, 500}]_vars

\* C11: every Rating row references a stored Item, whatever the interleaving
\* of rating requests and deletions; and the deletion of an Item leaves none
\* of its Ratings behind.
C11_NoOrphanRating ==
    /\ [](\A r \in ratings : \E j \in jokes : j.id = r.joke_id)
    /\ [][\A id \in 1..MaxJokes :
            DeleteJoke(id) =>
              /\ \A j \in jokes' : j.id # id
              /\ \A r \in ratings' : r.joke_id # id
              /\ \A r \in ratings : r.joke_id # id => r \in ratings']_vars

\* a rating request past its existence check whose joke has since been
\* deleted, while the ratings of another joke are stored
C11_Witness ==
    /\ ratings # {}
    /\ \E c \in Clients :
          pc[c] = "insert" /\ SelectJoke(jokes, req[c].jokeId.n) = {}

\* C12: every stored Rating has stars in 1..5, and every row of every view
\* has rating_count >= 0 and avg_rating in [0,5]: 0 exactly when rating_count
\* is 0, and in [1,5] otherwise.
C12_AggregateInRange ==
    /\ \A r \in ratings : r.stars \in 1..5
    /\ resp.op \in {"random", "top", "all", "rate"} /\ resp.status = 200 =>
         \A i \in Pos(resp.rows) :
            LET avg == resp.rows[i].avg_rating
                count == resp.rows[i].rating_count
            IN /\ count >= 0
               /\ avg.d > 0
               /\ 0 <= avg.n /\ avg.n <= 5 * avg.d
               /\ avg.n = 0 <=> count = 0
               /\ count # 0 => avg.d <= avg.n

\* All Items answered with an unrated item and one rated 5 twice
C12_Witness ==
    /\ resp.op = "all" /\ Len(resp.rows) = 2
    /\ \E i \in Pos(resp.rows) : resp.rows[i].rating_count = 0
    /\ \E i \in Pos(resp.rows) :
          resp.rows[i].rating_count = 2 /\ resp.rows[i].avg_rating = Num(5)

\* C13: with rating requests interleaved, the aggregate in a successful
\* Submit Rating response is that of the item's Rating rows at the one moment
\* of the re-read, which is after the request's insert: it is one row, of a
\* stored item, with the count and the mean of all ratings written for the
\* item up to that moment, and the count is at least 1.
C13_RereadIsSnapshot ==
    resp.op = "rate" /\ resp.status = 200 =>
      /\ Len(resp.rows) = 1
      /\ ItemOf(resp.rows[1]) \in jokes
      /\ resp.rows[1].rating_count >= 1
      /\ resp.rows[1].rating_count =
           Cardinality({r \in ratings : r.joke_id = resp.rows[1].id})
      /\ IsMeanOf(resp.rows[1], StarsOf(accepted, resp.rows[1].id))

\* a rating answered with a count of 2 while the other request, which wrote
\* the second of the two ratings, still waits for its re-read
C13_Witness ==
    /\ resp.op = "rate" /\ resp.status = 200 /\ Len(resp.rows) = 1
    /\ resp.rows[1].rating_count = 2
    /\ \E c \in Clients :
          pc[c] = "reread" /\ req[c].jokeId.n = resp.rows[1].id

\* C14 (as claimed): a rating request with valid stars whose item was deleted
\* after its existence check ends in a 404, or, its insert having come before
\* the deletion, in a 200 that carries the item; the process keeps serving.
C14_DeletedItemNotFound ==
    [][\A c \in Clients :
         ( /\ pc[c] \in {"insert", "reread"}
           /\ SelectJoke(jokes, req[c].jokeId.n) = {}
           /\ pc[c] = "insert" => IsStars(req[c].stars)
           /\ pc'[c] = "idle" ) =>
         /\ phase' = "listening"
         /\ resp'.op = "rate"
         /\ \/ resp'.status = 404
            \/ resp'.status = 200 /\ Len(resp'.rows) = 1]_vars

\* C15: no step of a request changes or removes a stored Item or Rating: the
\* two sets only grow.  Items are added only by a Submit Item answered 201,
\* which adds one Item and no Rating; Ratings are added only by the insert of
\* a Submit Rating, which adds one Rating and no Item.
C15_RowsOnlyAdded ==
    [][/\ jokes \subseteq jokes'
       /\ ratings \subseteq ratings'
       /\ resp'.op = "submit" /\ resp'.status = 201 =>
            Cardinality(jokes' \ jokes) = 1 /\ ratings' = ratings
       /\ jokes' # jokes => resp'.op = "submit" /\ resp'.status = 201
       /\ \A c \in Clients :
            pc[c] = "insert" /\ pc'[c] = "reread" =>
              Cardinality(ratings' \ ratings) = 1 /\ jokes' = jokes
       /\ ratings' # ratings =>
            \E c \in Clients : pc[c] = "insert" /\ pc'[c] = "reread"]_vars

\* a second Rating was written beside the first, with two Items stored
C15_Witness ==
    /\ Cardinality(jokes) = 2 /\ Cardinality(ratings) = 2
    /\ \E c \in Clients : pc[c] = "reread"

\* C16: the connection string is the environment's when that is set, else the
\* value looked up in the parameter store; with neither the process exits,
\* stays exited and answers no request; and the service listens, and answers,
\* only with the connection string resolved and the three initialisation
\* queries done.
C16_StartupOrder ==
    /\ [][\A hasEnv \in BOOLEAN, hasConfigUrl \in BOOLEAN,
            lookup \in {"value", "no value", "not ok", "throws"} :
            Resolve(hasEnv, hasConfigUrl, lookup) =>
              /\ hasEnv => databaseUrl' = "env"
              /\ ~hasEnv /\ hasConfigUrl /\ lookup = "value" =>
                   databaseUrl' = "parameter store"
              /\ ~hasEnv /\ ~(hasConfigUrl /\ lookup = "value") =>
                   databaseUrl' = "none" /\ phase' = "exited"
              /\ databaseUrl' # "none" => phase' = "resolved"]_vars
    /\ [][phase = "exited" => phase' = "exited" /\ resp' = NoResponse]_vars
    /\ [](phase \in {"listening", "crashed"} \/ resp # NoResponse =>
            databaseUrl # "none" /\ initDone = 3)
    /\ [](phase \in {"init", "listening", "crashed"} => databaseUrl # "none")

\* the service listens with a connection string from the parameter store
C16_Witness == phase = "listening" /\ databaseUrl = "parameter store"

\* C17: the application holds a store connection only while it initialises
\* the tables, and then one: it holds none once it listens, after any step of
\* any request whatever its outcome, and after an initialisation query failed.
C17_ConnectionsReturned ==
    /\ held \in {0, 1}
    /\ held = 1 <=> phase = "init"
    /\ resp # NoResponse => held = 0

\* the second initialisation query failed and the client was released
C17_Witness == phase = "exited" /\ initDone = 1 /\ held = 0

\* C18 (as claimed): Submit Item with a text that is not blank is answered
\* 201 with the one Item it created, whose author is the submitted author,
\* trimmed, however long that is.
C18_AnyAuthorAccepted ==
    [][\A text \in TextInputs, author \in AuthorInputs :
         ( /\ resp'.op = "submit"
           /\ text.t = "string" /\ ~Blank(text.s)
           /\ SubmitItem(text, author) ) =>
         /\ resp'.status = 201
         /\ Cardinality(jokes' \ jokes) = 1
         /\ \A j \in jokes' \ jokes :
              /\ resp'.rows = <<j>>
              /\ author.t = "string" /\ ~Blank(author.s) =>
                   IsTrimOf(j.author, author.s)]_vars

\* C19: a step of Random Item, Top Items or All Items, and a step of a write
\* that is answered 400 or 404, leaves the Item rows and the Rating rows as
\* they were.
C19_ReadsAndRejectionsKeepStore ==
    [][resp'.op \in {"random", "top", "all"} \/ resp'.status \in {400, 404} =>
         jokes' = jokes /\ ratings' = ratings]_vars

\* a rating answered 404 with Ratings stored
C19_Witness == resp.op = "rate" /\ resp.status = 404 /\ ratings # {}

====
